---- MODULE Spec2Model ----
(***************************************************************************)
(* ComfyUI-Gallery: the folder scanner, the change detector, the debounced *)
(* watchdog event handler and the monitor lifecycle of the server routes.  *)
(*                                                                         *)
(* Paths are sequences of path segments (<<"output","sub","a.png">>), so   *)
(* os.path.join is \o, os.path.basename is the last segment and            *)
(* os.path.relpath is the tail after the base.  Time is counted in ticks   *)
(* of a quarter second: the debounce interval of 0.5 s is 2 ticks.         *)
(***************************************************************************)
EXTENDS Integers, Sequences, FiniteSets, TLC

\* ------------------------------------------------------------------ bounds
\* Timer threads one event handler may have alive at once (pending + running).
MaxTimers == 2
\* FileSystemMonitor objects created in one run (successful start requests).
MaxStarts == 2

\* Raw events in one run of the server with its start and stop requests.
MaxEvents == 1
\* Versions of one file's record in the snapshots given to the change detector.
MaxVersions == 2
\* /Gallery/images requests in progress at once.
MaxScans == 2

\* debounce_interval=0.5 (folder_monitor.py:248), in ticks of 0.25 s.
DebounceInterval == 2

\* ------------------------------------------------------------- file system
\* folder_paths.get_output_directory()
OutputDir == <<"output">>
SubDir == <<"output", "sub">>
\* The directories that exist (fixed), and the media file that comes and goes.
Dirs == {OutputDir, SubDir}
MediaFile == <<"output", "sub", "a.png">>
Files == {MediaFile}
\* A file's state: 0 = absent, otherwise its mtime (which stands for its content).
Mtimes == {1, 2}
FileStates == {0} \cup Mtimes

Last(s) == s[Len(s)]
Front(s) == SubSeq(s, 1, Len(s) - 1)
IsPrefix(p, s) == Len(p) <= Len(s) /\ SubSeq(s, 1, Len(p)) = p
\* os.path.relpath(path, base) for a path under base ("." is <<>>)
RelPath(path, base) == SubSeq(path, Len(base) + 1, Len(path))

\* entry.lower(): the file names of the model and their lower-case forms
Lower(name) ==
    CASE name = "A.PNG" -> "a.png"
      [] OTHER -> name
\* str.endswith over the names of the model: the suffixes a name ends with
SuffixesOf(name) ==
    CASE name = "a.png" -> {".png"}
      [] name = "A.PNG" -> {".PNG"}
      [] name = "b.webm" -> {".webm"}
      [] name = "x.tmp" -> {".tmp"}
      [] name = "a.png~" -> {"~"}
      [] OTHER -> {}
EndsWith(name, suffixes) == SuffixesOf(name) \cap suffixes # {}

ImageExts == {".png", ".jpg", ".jpeg", ".webp"}
ScanExts == ImageExts \cup {".mp4", ".gif", ".webm"}

EmptyDict == << >>
\* dict truthiness: a dict is true iff it has a key
Truthy(d) == DOMAIN d # {}

\* What can go wrong during a scan: the directories os.listdir raises on, the
\* files os.path.getmtime raises on, the files buildMetadata raises on.
NoFaults == [unreadable |-> {}, stat_raises |-> {}, meta_raises |-> {}]
\* The outcome of a piece of code: it raised, or it gave a value.
Raised == [raised |-> TRUE, val |-> EmptyDict]
Returned(v) == [raised |-> FALSE, val |-> v]

\* The handler of lines 68-69 with a slip: the exception is raised again.
except_scan_reraises(r) == r

\* `except Exception` of lines 49-51: metadata = {}
except_metadata(r) == IF r.raised THEN Returned(EmptyDict) ELSE r
\* `except Exception` of lines 61-62: the file is left out (no value)
except_file(r) == IF r.raised THEN Returned(EmptyDict) ELSE r
\* `except Exception` of lines 68-69: the directory adds nothing
except_scan(r) == IF r.raised THEN Returned(EmptyDict) ELSE r

\* buildMetadata(full_path), a function of the file's content (line 48)
buildMetadata(fsv, faults, full_path) ==
    IF full_path \in faults.meta_raises THEN Raised
    ELSE Returned([content |-> fsv[full_path]])

\* One file's record, folder_scanner.py:32-62: a one-key dict entry -> record,
\* or the empty dict when the file's processing raised.  The date string is a
\* function of the mtime.
FileEntry(fsv, faults, full_base_path, dir_path, entry) ==
    LET full_path == dir_path \o <<entry>>
        timestamp == fsv[full_path]
        subfolder == RelPath(dir_path, full_base_path)
        isImage == EndsWith(Lower(entry), ImageExts)
        metadata == IF isImage
                    THEN except_metadata(buildMetadata(fsv, faults, full_path))
                    ELSE Returned(EmptyDict)
    IN except_file(
         IF full_path \in faults.stat_raises \/ metadata.raised THEN Raised
         ELSE Returned(entry :> [name |-> entry,
                                 url |-> <<"static_gallery">> \o subfolder \o <<entry>>,
                                 timestamp |-> timestamp,
                                 date |-> [of |-> timestamp],
                                 metadata |-> metadata.val,
                                 type |-> IF isImage THEN "image" ELSE "media"]))

\* dict.update over a set of dicts with disjoint keys
RECURSIVE MergeAll(_)
MergeAll(S) ==
    IF S = {} THEN EmptyDict
    ELSE LET d == CHOOSE x \in S : TRUE IN d @@ MergeAll(S \ {d})

\* scan_directory, folder_scanner.py:12-69: whether it raised, and the folders
\* it and the calls below it put into folders_data
RECURSIVE scan_directory(_, _, _, _, _, _, _)
scan_directory(fsv, faults, full_base_path, base_path, include_subfolders, dir_path, relative_path) ==
    LET subdirs == {d \in Dirs : Len(d) = Len(dir_path) + 1 /\ IsPrefix(dir_path, d)}
        file_entries == {Last(f) : f \in {g \in DOMAIN fsv : Front(g) = dir_path /\ fsv[g] # 0}}
        below == IF include_subfolders
                 THEN {scan_directory(fsv, faults, full_base_path, base_path,
                                      include_subfolders, d, relative_path \o <<Last(d)>>)
                       : d \in subdirs}
                 ELSE {}
        listed == {e \in file_entries : EndsWith(Lower(e), ScanExts)}
        files == {FileEntry(fsv, faults, full_base_path, dir_path, e) : e \in listed}
        folder_content == MergeAll({r.val : r \in files})
        folder_key == IF relative_path # <<>> THEN <<base_path>> \o relative_path
                      ELSE <<base_path>>
        found == MergeAll({r.val : r \in below})
    IN except_scan(
         IF dir_path \in faults.unreadable THEN Raised
         ELSE IF (\E r \in below : r.raised) \/ (\E r \in files : r.raised) THEN Raised
         ELSE Returned(IF Truthy(folder_content)
                       THEN (folder_key :> folder_content) @@ found ELSE found))

\* _scan_for_images, folder_scanner.py:6-72: whether it raised, and the
\* folders_data it returns
ScanWithFaults(fsv, faults, full_base_path, base_path, include_subfolders) ==
    scan_directory(fsv, faults, full_base_path, base_path, include_subfolders,
                   full_base_path, <<>>)

\* _scan_for_images on a tree where nothing raises
ScanForImages(fsv, full_base_path, base_path, include_subfolders) ==
    ScanWithFaults(fsv, NoFaults, full_base_path, base_path, include_subfolders).val

\* ------------------------------------------------------------ change detector
\* {"action": a, **new_file_data}
ChangeRecord(action, data) ==
    [action |-> action, name |-> data.name, url |-> data.url,
     timestamp |-> data.timestamp, date |-> data.date, metadata |-> data.metadata,
     type |-> data.type]
RemoveRecord == [action |-> "remove"]

DictGet(d, k) == IF k \in DOMAIN d THEN d[k] ELSE EmptyDict

\* folder_changes with a slip: two records of a file are compared by their
\* timestamps only.
FolderChanges_by_timestamp(old_folder, new_folder) ==
    LET all_files == DOMAIN old_folder \cup DOMAIN new_folder
        changed == {f \in all_files :
                      \/ f \notin DOMAIN old_folder
                      \/ f \notin DOMAIN new_folder
                      \/ old_folder[f].timestamp # new_folder[f].timestamp}
    IN [f \in changed |->
          IF f \notin DOMAIN old_folder THEN ChangeRecord("create", new_folder[f])
          ELSE IF f \notin DOMAIN new_folder THEN RemoveRecord
          ELSE ChangeRecord("update", new_folder[f])]

\* the folder_changes dict of one folder, folder_monitor.py:288-305
FolderChanges(old_folder, new_folder) ==
    LET all_files == DOMAIN old_folder \cup DOMAIN new_folder
        changed == {f \in all_files :
                      \/ f \notin DOMAIN old_folder
                      \/ f \notin DOMAIN new_folder
                      \/ old_folder[f] # new_folder[f]}
    IN [f \in changed |->
          IF f \notin DOMAIN old_folder THEN ChangeRecord("create", new_folder[f])
          ELSE IF f \notin DOMAIN new_folder THEN RemoveRecord
          ELSE ChangeRecord("update", new_folder[f])]

\* detect_folder_changes with a slip: the `if folder_changes:` of line 307 is
\* missing, every folder gets a key.
detect_folder_changes_keeps_empty(old_folders, new_folders) ==
    LET all_folders == DOMAIN old_folders \cup DOMAIN new_folders
    IN [folders |-> [k \in all_folders |->
                       FolderChanges(DictGet(old_folders, k), DictGet(new_folders, k))]]

\* detect_folder_changes with a slip: all_folders of line 286 holds the keys
\* of the new snapshot only.
detect_folder_changes_new_keys(old_folders, new_folders) ==
    LET all_folders == DOMAIN new_folders
        fc(k) == FolderChanges(DictGet(old_folders, k), DictGet(new_folders, k))
    IN [folders |-> [k \in {x \in all_folders : Truthy(fc(x))} |-> fc(k)]]

\* detect_folder_changes, folder_monitor.py:282-310
detect_folder_changes(old_folders, new_folders) ==
    LET all_folders == DOMAIN old_folders \cup DOMAIN new_folders
        fc(k) == FolderChanges(DictGet(old_folders, k), DictGet(new_folders, k))
    IN [folders |-> [k \in {x \in all_folders : Truthy(fc(x))} |-> fc(k)]]

\* What a subscriber does with a published message: create/update put the
\* record's fields, remove deletes, a folder left without files disappears.
EntryOf(rec) ==
    [name |-> rec.name, url |-> rec.url, timestamp |-> rec.timestamp,
     date |-> rec.date, metadata |-> rec.metadata, type |-> rec.type]
ApplyFolder(folder, fchanges) ==
    LET keep == (DOMAIN folder \cup DOMAIN fchanges)
                  \ {f \in DOMAIN fchanges : fchanges[f].action = "remove"}
    IN [f \in keep |-> IF f \in DOMAIN fchanges THEN EntryOf(fchanges[f]) ELSE folder[f]]
ApplyDiff(snapshot, changes) ==
    LET ks == DOMAIN snapshot \cup DOMAIN changes.folders
        af(k) == ApplyFolder(DictGet(snapshot, k), DictGet(changes.folders, k))
    IN [k \in {x \in ks : Truthy(af(x))} |-> af(k)]

\* ------------------------------------------------------------------- state
Monitors == 1 .. MaxStarts
Slots == 1 .. MaxTimers

VARIABLES
    fs,       \* the media files on disk: file -> 0 (absent) or its mtime
    handler,  \* per FileSystemMonitor, its GalleryEventHandler and the Timer threads it made
    mon,      \* per FileSystemMonitor: base_path, thread, observer
    nmon,     \* FileSystemMonitor objects created so far
    monitor,  \* server.py's global monitor: 0 is None, else the monitor's number
    mount,    \* the static route's _directory
    req,      \* the start request being processed, if any
    sink,     \* per monitor, what a Gallery.file_change subscriber has received
    burst,    \* history of monitor 1's raw events: the burst in progress
    nev,      \* raw events so far, where a run's events are counted
    disk,     \* the files the delete and move routes work on: path -> present
    resp,     \* the last response of a delete or move request
    scans,    \* the scanning threads of the /Gallery/images requests in progress
    scan_lock, \* PromptServer.instance.scan_lock: 0 is free, else the holding request
    arg,      \* the argument a function is applied to
    out       \* the value the function returned

vars == <<fs, handler, mon, nmon, monitor, mount, req, sink, burst, nev,
          disk, resp, scans, scan_lock, arg, out>>

\* What the watch and the monitor routes do not touch, and its value where
\* it plays no part.
aux == <<disk, resp, scans, scan_lock, arg, out>>
Nothing == "none"
AuxIdle ==
    /\ disk = Nothing /\ resp = Nothing
    /\ scans = Nothing /\ scan_lock = 0
    /\ arg = Nothing /\ out = Nothing

\* PLACEHOLDER_DIR = os.path.join(comfy_path, "output"), server.py:26
PLACEHOLDER_DIR == OutputDir

\* A Timer thread of a handler: free (no thread), waiting (started, rem ticks to
\* go), then inside rescan_and_send_changes: scanning (the walk of line 223),
\* scanned (the scan returned new), sent (lines 226-234 done).
FreeTimer == [pc |-> "free", rem |-> 0, new |-> EmptyDict]
Executing(t) == t.pc \in {"scanning", "scanned", "sent"}

\* The handler without the initial scan of line 249: the cache starts empty.
NewHandler_unseeded(base_path, seed) ==
    [base_path |-> base_path,
     last_known_folders |-> EmptyDict,
     debounce_timer |-> 0,
     processed_events |-> EmptyDict,
     timers |-> [s \in Slots |-> FreeTimer]]

\* GalleryEventHandler.__init__, folder_monitor.py:173-179, and the
\* last_known_folders FileSystemMonitor.__init__ gives it, line 249
NewHandler(base_path, seed) ==
    [base_path |-> base_path,
     last_known_folders |-> seed,
     debounce_timer |-> 0,
     processed_events |-> EmptyDict,
     timers |-> [s \in Slots |-> FreeTimer]]

NoHandler == NewHandler(<<>>, EmptyDict)
NoMonitor == [base_path |-> <<>>, thread |-> "none", observer |-> "absent"]
NoSink == [applied |-> EmptyDict, sent |-> FALSE]
IdleReq == [pc |-> "idle", path |-> <<>>, replaced |-> 0]
\* gap: ticks since the last qualifying raw event (capped at the debounce
\* interval); fires: rescans started since the burst in progress began.
NoBurst == [gap |-> DebounceInterval, fires |-> 0]

\* ------------------------------------------------------------ event handler
\* patterns=[...], case_sensitive=True, folder_monitor.py:248: watchdog's
\* PatternMatchingEventHandler dispatches an event when its source or its
\* destination path matches a pattern.
PatternExts == {".png", ".jpg", ".jpeg", ".webp", ".mp4", ".gif"}
PatternMatches(e) ==
    \/ EndsWith(Last(e.src_path), PatternExts)
    \/ e.dest_path # <<>> /\ EndsWith(Last(e.dest_path), PatternExts)

FileEvent(type, src, dest) ==
    [event_type |-> type, src_path |-> src, dest_path |-> dest, is_directory |-> FALSE]

\* Timer.is_alive(): the thread has started and has not ended
IsAlive(hs, t) == t # 0 /\ hs.timers[t].pc # "free"
\* Timer.cancel() ends a timer that still waits and does nothing to one that runs
Cancel(timers, t) ==
    IF timers[t].pc = "waiting" THEN [timers EXCEPT ![t] = FreeTimer] ELSE timers
FreeSlot(timers) == CHOOSE s \in Slots :
    timers[s].pc = "free" /\ \A r \in Slots : timers[r].pc = "free" => s <= r

\* debounce_event with a slip: a scan in flight is taken for a pending timer,
\* and no new timer is armed.
debounce_event_skips_in_flight(hs) ==
    LET t == hs.debounce_timer
        kept == IF IsAlive(hs, t) THEN Cancel(hs.timers, t) ELSE hs.timers
        s == FreeSlot(kept)
    IN IF IsAlive(hs, t) /\ Executing(hs.timers[t]) THEN hs
       ELSE [hs EXCEPT !.timers = [kept EXCEPT ![s] = [FreeTimer EXCEPT !.pc = "waiting",
                                                                  !.rem = DebounceInterval]],
                       !.debounce_timer = s]

\* debounce_event with a slip: a timer reference that is set and not alive (the
\* thread of a rescan that raised) is taken for a pending timer.
debounce_event_trusts_dead_timer(hs) ==
    LET t == hs.debounce_timer
        kept == IF IsAlive(hs, t) THEN Cancel(hs.timers, t) ELSE hs.timers
        s == FreeSlot(kept)
    IN IF t # 0 /\ ~IsAlive(hs, t) THEN hs
       ELSE [hs EXCEPT !.timers = [kept EXCEPT ![s] = [FreeTimer EXCEPT !.pc = "waiting",
                                                                  !.rem = DebounceInterval]],
                       !.debounce_timer = s]

\* debounce_event, folder_monitor.py:211-217
debounce_event(hs) ==
    LET t == hs.debounce_timer
        kept == IF IsAlive(hs, t) THEN Cancel(hs.timers, t) ELSE hs.timers
        s == FreeSlot(kept)
    IN [hs EXCEPT !.timers = [kept EXCEPT ![s] = [FreeTimer EXCEPT !.pc = "waiting",
                                                                  !.rem = DebounceInterval]],
                  !.debounce_timer = s]

DebouncedTypes == {"created", "deleted", "modified", "moved"}
TempSuffixes == {".swp", ".tmp", "~"}

\* The event passes the early returns of lines 183-188.
PassesFilter(e) == ~e.is_directory /\ ~EndsWith(Last(e.src_path), TempSuffixes)
\* The event is dropped as a repeat by lines 196-200 (ages are in ticks).
IsDuplicate(hs, e) ==
    LET event_key == <<e.event_type, e.src_path>>
    IN event_key \in DOMAIN hs.processed_events
         /\ hs.processed_events[event_key] < DebounceInterval

\* on_any_event, folder_monitor.py:181-208
on_any_event(hs, e) ==
    IF e.is_directory THEN hs
    ELSE IF EndsWith(Last(e.src_path), TempSuffixes) THEN hs
    ELSE IF IsDuplicate(hs, e) THEN hs
    ELSE LET event_key == <<e.event_type, e.src_path>>
             marked == [hs EXCEPT !.processed_events = (event_key :> 0) @@ @]
         IN IF e.event_type \in DebouncedTypes THEN debounce_event(marked) ELSE marked

\* A qualifying raw event: one of the four debounced types on a non-directory,
\* non-temporary file.
Qualifying(e) == PassesFilter(e) /\ e.event_type \in DebouncedTypes

\* The handler can take one more event: a Timer thread can still be created.
HasRoom(hs) ==
    \/ \E s \in Slots : hs.timers[s].pc = "free"
    \/ hs.debounce_timer # 0 /\ hs.timers[hs.debounce_timer].pc = "waiting"

\* ------------------------------------------------------------- raw events
\* The raw events the OS delivers about the media file.  A file written under
\* a temporary name and renamed into place arrives as one moved event whose
\* source is the temporary file.
TempFile == <<"output", "sub", "x.tmp">>
Events ==
    {FileEvent(t, MediaFile, <<>>) : t \in {"created", "modified", "deleted"}}
      \cup {FileEvent("moved", TempFile, MediaFile)}

\* What the event's cause does to the file: the states it can happen in, and
\* the states it can leave.
CanHappen(e, state) ==
    CASE e.event_type = "created" -> state = 0
      [] e.event_type \in {"modified", "deleted"} -> state # 0
      [] OTHER -> TRUE
Leaves(e, state) ==
    CASE e.event_type \in {"created", "modified", "moved"} -> Mtimes
      [] e.event_type = "deleted" -> {0}
      [] OTHER -> {state}

\* Observer.schedule(event_handler, base_path, recursive=True), lines 262-264:
\* a running observer hands its handler the events under base_path that match
\* the handler's patterns.
Delivers(m, e) ==
    /\ mon[m].observer = "running"
    /\ IsPrefix(mon[m].base_path, e.src_path)
    /\ PatternMatches(e)

\* Something happens to the media file and the running observers dispatch the
\* event (the dispatch runs on_any_event on the observer's thread).
RawEvent(e) ==
    /\ CanHappen(e, fs[MediaFile])
    /\ \A m \in Monitors : Delivers(m, e) => HasRoom(handler[m])
    /\ \E v \in Leaves(e, fs[MediaFile]) : fs' = [fs EXCEPT ![MediaFile] = v]
    /\ handler' = [m \in Monitors |->
                     IF Delivers(m, e) THEN on_any_event(handler[m], e) ELSE handler[m]]
    /\ UNCHANGED <<mon, nmon, monitor, mount, req, sink>>

\* ------------------------------------------------------------ timer threads
TimerAt(m, s) == handler[m].timers[s]
SetTimer(m, s, t) == [handler EXCEPT ![m].timers[s] = t]

\* A quarter second passes: waiting timers and the ages of the dedup table
\* advance.  A timer that is due runs (or is cancelled) before more time passes.
Tick ==
    /\ \A m \in Monitors, s \in Slots : ~(TimerAt(m, s).pc = "waiting" /\ TimerAt(m, s).rem = 0)
    /\ handler' = [m \in Monitors |->
          [handler[m] EXCEPT
              !.timers = [s \in Slots |->
                  IF @[s].pc = "waiting" THEN [@[s] EXCEPT !.rem = @ - 1] ELSE @[s]],
              !.processed_events = [k \in DOMAIN @ |->
                  IF @[k] < DebounceInterval THEN @[k] + 1 ELSE @[k]]]]
    /\ UNCHANGED <<fs, mon, nmon, monitor, mount, req, sink>>

\* threading.Timer(debounce_interval, rescan_and_send_changes) fires: the
\* thread enters rescan_and_send_changes and starts the walk of line 223.
TimerFire(m, s) ==
    /\ TimerAt(m, s).pc = "waiting" /\ TimerAt(m, s).rem = 0
    /\ handler' = SetTimer(m, s, [TimerAt(m, s) EXCEPT !.pc = "scanning"])
    /\ UNCHANGED <<fs, mon, nmon, monitor, mount, req, sink>>

\* lines 223-225: _scan_for_images(self.base_path, "output", True) returns
ScanReturn(m, s) ==
    /\ TimerAt(m, s).pc = "scanning"
    /\ handler' = SetTimer(m, s, [TimerAt(m, s) EXCEPT
          !.pc = "scanned",
          !.new = ScanForImages(fs, handler[m].base_path, "output", TRUE)])
    /\ UNCHANGED <<fs, mon, nmon, monitor, mount, req, sink>>

\* PromptServer.instance.send_sync("Gallery.file_change", ...): what the
\* subscriber of this monitor has after one more message.  sanitize_json_data
\* leaves the strings and finite numbers of a diff as they are.
Received(sk, changes) ==
    [applied |-> ApplyDiff(sk.applied, changes), sent |-> TRUE]

\* `if changes:` of line 229
ShouldSend(changes) == Truthy(changes)

\* The changes the thread in slot s computes at lines 226-227
ChangesOf(m, s) ==
    detect_folder_changes(handler[m].last_known_folders, TimerAt(m, s).new)

\* lines 226-234: read last_known_folders, compute the changes, publish them
\* if the dict is true
DiffAndPublish(m, s) ==
    /\ TimerAt(m, s).pc = "scanned"
    /\ handler' = SetTimer(m, s, [TimerAt(m, s) EXCEPT !.pc = "sent"])
    /\ sink' = IF ShouldSend(ChangesOf(m, s))
               THEN [sink EXCEPT ![m] = Received(@, ChangesOf(m, s))]
               ELSE sink
    /\ UNCHANGED <<fs, mon, nmon, monitor, mount, req>>

\* An exception leaves rescan_and_send_changes (the import of line 221, the
\* scan, sanitize_json_data or send_sync raises): nothing catches it, the
\* Timer thread ends, and lines 235-236 are not reached.
RescanRaise(m, s) ==
    /\ TimerAt(m, s).pc \in {"scanning", "scanned"}
    /\ handler' = SetTimer(m, s, FreeTimer)
    /\ UNCHANGED <<fs, mon, nmon, monitor, mount, req, sink>>

\* Lines 235-236 with a slip: the new snapshot is merged into the cached one
\* (dict.update) where the code replaces it.
write_cache_merges(hs, s) ==
    [hs EXCEPT !.last_known_folders = hs.timers[s].new @@ hs.last_known_folders,
               !.debounce_timer = 0,
               !.timers[s] = FreeTimer]

\* The handler after lines 235-236 ran on the thread in slot s
write_cache(hs, s) ==
    [hs EXCEPT !.last_known_folders = hs.timers[s].new,
               !.debounce_timer = 0,
               !.timers[s] = FreeTimer]

\* lines 235-236: replace the cached snapshot, reset the timer reference; the
\* thread ends
WriteCache(m, s) ==
    /\ TimerAt(m, s).pc = "sent"
    /\ handler' = [handler EXCEPT ![m] = write_cache(@, s)]
    /\ UNCHANGED <<fs, mon, nmon, monitor, mount, req, sink>>

\* ---------------------------------------------------------- monitor lifecycle
\* stop_monitoring with a slip: the thread reference is dropped, the observer
\* is neither stopped nor joined.
stop_monitoring_leaves_observer(ms) ==
    IF ms.thread # "alive" THEN [mon |-> ms, raised |-> FALSE]
    ELSE [mon |-> [ms EXCEPT !.thread = "none"], raised |-> FALSE]

\* stop_monitoring, folder_monitor.py:271-277: the monitor afterwards, and
\* whether the call raised.  Observer.join() on an observer whose thread was
\* never started raises RuntimeError (after stop() has set its stop flag).
stop_monitoring(ms) ==
    IF ms.thread # "alive" THEN [mon |-> ms, raised |-> FALSE]
    ELSE IF ms.observer \in {"new", "stopped_new"}
         THEN [mon |-> [ms EXCEPT !.observer = "stopped_new"], raised |-> TRUE]
         ELSE [mon |-> [ms EXCEPT !.observer = "exited", !.thread = "none"],
               raised |-> FALSE]

\* `monitor and monitor.thread and monitor.thread.is_alive()`, server.py:122, 149
MonitorAlive == monitor # 0 /\ mon[monitor].thread = "alive"

\* os.path.normpath(os.path.join(get_output_directory(), "..", "output",
\* relative_path)) for the relative paths "./", "sub" and "missing"
RequestPaths == Dirs \cup {<<"output", "missing">>}

\* start_gallery_monitor up to the remount, server.py:113-134: stop the
\* running monitor, validate the path, point the static route at it.
StartRequest(path) ==
    /\ req.pc = "idle"
    /\ path \in Dirs => nmon < MaxStarts
    /\ LET st == IF MonitorAlive THEN stop_monitoring(mon[monitor])
                 ELSE [mon |-> NoMonitor, raised |-> FALSE]
       IN /\ mon' = IF MonitorAlive THEN [mon EXCEPT ![monitor] = st.mon] ELSE mon
          /\ IF st.raised \/ path \notin Dirs
             THEN UNCHANGED <<mount, req>>
             ELSE /\ mount' = path
                  /\ req' = [pc |-> "init_scan", path |-> path,
                             replaced |-> IF MonitorAlive THEN monitor ELSE 0]
    /\ UNCHANGED <<fs, handler, nmon, monitor, sink, burst, nev, aux>>

\* server.py:135-137: FileSystemMonitor(full_monitor_path, ...) runs the
\* initial scan (folder_monitor.py:244-250), start_monitoring spawns the
\* monitor thread (lines 252-257), and the handler returns.
StartCreate ==
    /\ req.pc = "init_scan"
    /\ LET id == nmon + 1
           seed == ScanForImages(fs, req.path, "output", TRUE)
       IN /\ handler' = [handler EXCEPT ![id] = NewHandler(req.path, seed)]
          /\ mon' = [mon EXCEPT ![id] = [base_path |-> req.path, thread |-> "alive",
                                         observer |-> "new"]]
          /\ sink' = [sink EXCEPT ![id] = [NoSink EXCEPT !.applied = seed]]
          /\ nmon' = id
          /\ monitor' = id
    /\ req' = IdleReq
    /\ UNCHANGED <<fs, mount, burst, nev, aux>>

\* _start_observer_thread, folder_monitor.py:261-264: schedule the handler and
\* start the observer.  An observer started after stop() ends at once.
ObserverThreadRun(m) ==
    /\ mon[m].observer \in {"new", "stopped_new"}
    /\ mon' = [mon EXCEPT ![m].observer = IF @ = "new" THEN "running" ELSE "exited"]
    /\ UNCHANGED <<fs, handler, nmon, monitor, mount, req, sink, burst, nev, aux>>

\* stop_gallery_monitor, server.py:144-157
StopRequest ==
    /\ req.pc = "idle"
    /\ LET st == IF MonitorAlive THEN stop_monitoring(mon[monitor])
                 ELSE [mon |-> NoMonitor, raised |-> FALSE]
       IN /\ mon' = IF MonitorAlive THEN [mon EXCEPT ![monitor] = st.mon] ELSE mon
          /\ monitor' = IF MonitorAlive /\ ~st.raised THEN 0 ELSE monitor
          /\ mount' = IF st.raised THEN mount ELSE PLACEHOLDER_DIR
    /\ UNCHANGED <<fs, handler, nmon, req, sink, burst, nev, aux>>

\* ------------------------------------------------------------ specification
\* The server after import: no monitor, the static route on the placeholder.
Init ==
    /\ fs \in [Files -> FileStates]
    /\ handler = [m \in Monitors |-> NoHandler]
    /\ mon = [m \in Monitors |-> NoMonitor]
    /\ nmon = 0
    /\ monitor = 0
    /\ mount = PLACEHOLDER_DIR
    /\ req = IdleReq
    /\ sink = [m \in Monitors |-> NoSink]
    /\ burst = NoBurst
    /\ nev = 0
    /\ AuxIdle

\* The history variables, which the program's steps leave alone
hist == <<burst, nev>>

\* The server with its start and stop requests, over runs of at most
\* MaxEvents raw events.
Next ==
    \/ \E e \in Events : RawEvent(e) /\ nev < MaxEvents /\ nev' = nev + 1 /\ UNCHANGED <<burst, aux>>
    \/ Tick /\ UNCHANGED <<hist, aux>>
    \/ \E m \in Monitors, s \in Slots : TimerFire(m, s) /\ UNCHANGED <<hist, aux>>
    \/ \E m \in Monitors, s \in Slots : ScanReturn(m, s) /\ UNCHANGED <<hist, aux>>
    \/ \E m \in Monitors, s \in Slots : DiffAndPublish(m, s) /\ UNCHANGED <<hist, aux>>
    \/ \E m \in Monitors, s \in Slots : RescanRaise(m, s) /\ UNCHANGED <<hist, aux>>
    \/ \E m \in Monitors, s \in Slots : WriteCache(m, s) /\ UNCHANGED <<hist, aux>>
    \/ \E path \in RequestPaths : StartRequest(path)
    \/ StartCreate
    \/ \E m \in Monitors : ObserverThreadRun(m)
    \/ StopRequest

Spec == Init /\ [][Next]_vars

\* ------------------------------------------------------------- one watch
\* A watch that start_gallery_monitor has started on the output directory,
\* its observer running: the state after StartRequest, StartCreate and
\* ObserverThreadRun with no event in between.
InitWatch ==
    /\ fs \in [Files -> FileStates]
    /\ LET seed == ScanForImages(fs, OutputDir, "output", TRUE)
       IN /\ handler = [m \in Monitors |->
                          IF m = 1 THEN NewHandler(OutputDir, seed) ELSE NoHandler]
          /\ sink = [m \in Monitors |->
                       IF m = 1 THEN [NoSink EXCEPT !.applied = seed] ELSE NoSink]
    /\ mon = [m \in Monitors |->
                IF m = 1 THEN [base_path |-> OutputDir, thread |-> "alive",
                               observer |-> "running"]
                ELSE NoMonitor]
    /\ mount = OutputDir
    /\ nmon = 1
    /\ monitor = 1
    /\ req = IdleReq
    /\ burst = NoBurst
    /\ nev = 0
    /\ AuxIdle

\* One watch, any number of raw events, no start or stop request.
NextWatch ==
    \/ \E e \in Events : RawEvent(e) /\ UNCHANGED <<hist, aux>>
    \/ Tick /\ UNCHANGED <<hist, aux>>
    \/ \E s \in Slots : TimerFire(1, s) /\ UNCHANGED <<hist, aux>>
    \/ \E s \in Slots : ScanReturn(1, s) /\ UNCHANGED <<hist, aux>>
    \/ \E s \in Slots : DiffAndPublish(1, s) /\ UNCHANGED <<hist, aux>>
    \/ \E s \in Slots : RescanRaise(1, s) /\ UNCHANGED <<hist, aux>>
    \/ \E s \in Slots : WriteCache(1, s) /\ UNCHANGED <<hist, aux>>

SpecWatch == InitWatch /\ [][NextWatch]_vars

\* ------------------------------------------------ one watch, scheduled
\* The same watch where no rescan fails and threads are scheduled: time
\* passes, a due timer fires, and a thread inside rescan_and_send_changes
\* runs on to its end.
WatchEvent(e) == RawEvent(e) /\ UNCHANGED <<hist, aux>>
WatchTick == Tick /\ UNCHANGED <<hist, aux>>
Rescan(s) ==
    /\ TimerFire(1, s) \/ ScanReturn(1, s) \/ DiffAndPublish(1, s) \/ WriteCache(1, s)
    /\ UNCHANGED <<hist, aux>>

NextQuiet ==
    \/ \E e \in Events : WatchEvent(e)
    \/ WatchTick
    \/ \E s \in Slots : Rescan(s)

SpecQuiet ==
    /\ InitWatch
    /\ [][NextQuiet]_vars
    /\ WF_vars(WatchTick)
    /\ \A s \in Slots : WF_vars(Rescan(s))

\* ------------------------------------------------- one watch, bursts observed
\* The history of monitor 1's bursts: a qualifying raw event that comes a full
\* debounce interval or more after the previous one begins a new burst.
Highest(n) == IF n < 2 THEN n + 1 ELSE n
ObserveEvent(b, e) ==
    IF ~Qualifying(e) THEN b
    ELSE [gap |-> 0, fires |-> IF b.gap >= DebounceInterval THEN 0 ELSE b.fires]

NextBurst ==
    \/ \E e \in Events :
          /\ RawEvent(e)
          /\ burst' = IF Delivers(1, e) THEN ObserveEvent(burst, e) ELSE burst
          /\ UNCHANGED <<nev, aux>>
    \/ /\ Tick
       /\ burst' = [burst EXCEPT !.gap = IF @ < DebounceInterval THEN @ + 1 ELSE @]
       /\ UNCHANGED <<nev, aux>>
    \/ \E s \in Slots :
          /\ TimerFire(1, s)
          /\ burst' = [burst EXCEPT !.fires = Highest(@)]
          /\ UNCHANGED <<nev, aux>>
    \/ \E s \in Slots : ScanReturn(1, s) /\ UNCHANGED <<hist, aux>>
    \/ \E s \in Slots : DiffAndPublish(1, s) /\ UNCHANGED <<hist, aux>>
    \/ \E s \in Slots : RescanRaise(1, s) /\ UNCHANGED <<hist, aux>>
    \/ \E s \in Slots : WriteCache(1, s) /\ UNCHANGED <<hist, aux>>

SpecBurst == InitWatch /\ [][NextBurst]_vars

\* ------------------------------------------------------ the change detector
\* The watch and the server at rest, where only a function is applied.
ServerIdle ==
    /\ fs = [f \in Files |-> 0]
    /\ handler = [m \in Monitors |-> NoHandler]
    /\ mon = [m \in Monitors |-> NoMonitor]
    /\ nmon = 0
    /\ monitor = 0
    /\ mount = PLACEHOLDER_DIR
    /\ req = IdleReq
    /\ sink = [m \in Monitors |-> NoSink]
    /\ burst = NoBurst
    /\ nev = 0
server == <<fs, handler, mon, nmon, monitor, mount, req, sink, burst, nev>>

\* Snapshots as _scan_for_images returns them: folder keys "output" and
\* "output/sub", up to two files a folder, a folder only if it has a file.
\* A file's record comes in MaxVersions versions: those of the image differ
\* in the metadata only, those of the video in the timestamp.
FolderKeys == {<<"output">>, <<"output", "sub">>}
SnapNames == {"a.png", "b.webm"}
Versions == 1 .. MaxVersions
EntryVersion(folder_key, name, v) ==
    [name |-> name,
     url |-> <<"static_gallery">> \o RelPath(folder_key, <<"output">>) \o <<name>>,
     timestamp |-> IF name = "a.png" THEN 1 ELSE v,
     date |-> [of |-> IF name = "a.png" THEN 1 ELSE v],
     metadata |-> IF name = "a.png" THEN [content |-> v] ELSE EmptyDict,
     type |-> IF name = "a.png" THEN "image" ELSE "media"]
FolderContents(folder_key) ==
    UNION {[names -> Versions] : names \in SUBSET SnapNames}
FoldersOf(choice) ==
    [k \in {x \in FolderKeys : Truthy(choice[x])} |->
        [n \in DOMAIN choice[k] |-> EntryVersion(k, n, choice[k][n])]]
Snapshots ==
    {FoldersOf(choice) : choice \in [FolderKeys -> FolderContents(<<"output">>)]}

\* The function has not been called yet; it has returned v
NotCalled == [done |-> FALSE]
Result(v) == [done |-> TRUE, val |-> v]

InitDiff ==
    /\ ServerIdle
    /\ disk = Nothing /\ resp = Nothing /\ scans = Nothing /\ scan_lock = 0
    /\ arg \in [old_folders : Snapshots, new_folders : Snapshots]
    /\ out = NotCalled

\* changes = detect_folder_changes(old_folders_data, new_folders_data)
CallDetect ==
    /\ ~out.done
    /\ out' = Result(detect_folder_changes(arg.old_folders, arg.new_folders))
    /\ UNCHANGED <<server, disk, resp, scans, scan_lock, arg>>

NextDiff == CallDetect

SpecDiff == InitDiff /\ [][NextDiff]_vars

\* ------------------------------------------------------ the scanner, failing
\* The tree the scanner walks: two media files in output/ and one in
\* output/sub, each there or not; any of the directories may be unreadable and
\* any file may fail in os.path.getmtime or in buildMetadata.
ScanFiles ==
    {<<"output", "A.PNG">>, <<"output", "b.webm">>, <<"output", "sub", "a.png">>}
FaultSets ==
    [unreadable : SUBSET Dirs, stat_raises : SUBSET ScanFiles, meta_raises : SUBSET ScanFiles]

InitScan ==
    /\ ServerIdle
    /\ disk = Nothing /\ resp = Nothing /\ scans = Nothing /\ scan_lock = 0
    /\ arg \in [fsv : [ScanFiles -> {0, 1}], faults : FaultSets, include_subfolders : BOOLEAN]
    /\ out = NotCalled

\* _scan_for_images(base_path, "output", include_subfolders) is called and
\* returns or raises.
CallScan ==
    /\ ~out.done
    /\ out' = Result(ScanWithFaults(arg.fsv, arg.faults, OutputDir, "output",
                                     arg.include_subfolders))
    /\ UNCHANGED <<server, disk, resp, scans, scan_lock, arg>>

NextScan == CallScan

SpecScan == InitScan /\ [][NextScan]_vars

\* ----------------------------------------------------- one event dispatched
\* The raw events watchdog can report about one entry of the watched tree:
\* the entry's name with any extension and letter case, a file or a directory,
\* in the root or in the subfolder; a moved event has a destination.
EventNames == {"a.png", "A.PNG", "b.webm", "x.tmp", "a.png~"}
EventTypes == DebouncedTypes \cup {"closed"}
AnyEvents ==
    {[event_type |-> t, src_path |-> d \o <<n>>,
      dest_path |-> IF t = "moved" THEN d \o <<n2>> ELSE <<>>,
      is_directory |-> isdir]
     : t \in EventTypes, d \in Dirs, n \in EventNames, n2 \in EventNames,
       isdir \in BOOLEAN}

\* A watch on the output directory, idle, and one raw event to come.
InitDispatch ==
    /\ fs = [f \in Files |-> 0]
    /\ handler = [m \in Monitors |->
                    IF m = 1 THEN NewHandler(OutputDir, EmptyDict) ELSE NoHandler]
    /\ sink = [m \in Monitors |-> NoSink]
    /\ mon = [m \in Monitors |->
                IF m = 1 THEN [base_path |-> OutputDir, thread |-> "alive",
                               observer |-> "running"]
                ELSE NoMonitor]
    /\ mount = OutputDir
    /\ nmon = 1
    /\ monitor = 1
    /\ req = IdleReq
    /\ burst = NoBurst
    /\ nev = 0
    /\ disk = Nothing /\ resp = Nothing /\ scans = Nothing /\ scan_lock = 0
    /\ arg \in AnyEvents
    /\ out = NotCalled

\* The observer dispatches the event: the handler's patterns are matched and
\* on_any_event is called.
DispatchEvent ==
    /\ ~out.done
    /\ handler' = [handler EXCEPT ![1] = IF Delivers(1, arg) THEN on_any_event(@, arg)
                                         ELSE @]
    /\ out' = Result(Delivers(1, arg))
    /\ UNCHANGED <<fs, mon, nmon, monitor, mount, req, sink, burst, nev,
                   disk, resp, scans, scan_lock, arg>>

NextDispatch == DispatchEvent

SpecDispatch == InitDispatch /\ [][NextDispatch]_vars

\* ------------------------------------------------------- on-demand scans
\* get_gallery_images, server.py:51-103.  Each request starts a thread that
\* scans inside `with scan_lock` and puts the result, or the exception, into
\* the request's queue; the handler takes it from the queue and responds.
\* Requests may overlap here, and the lock is what serializes their scans (a
\* server with one event loop has one handler blocked in result_queue.get()
\* at a time).
Requests == 1 .. MaxScans
IdleScan == [pc |-> "idle", path |-> <<>>, put |-> NotCalled, status |-> 0]

\* Lock.acquire with a slip: it does not wait for the holder.
Locked_never(lock) == FALSE
\* threading.Lock: acquire blocks while the lock is held
Locked(lock) == lock # 0

InitImages ==
    /\ fs \in [Files -> FileStates]
    /\ handler = [m \in Monitors |-> NoHandler]
    /\ mon = [m \in Monitors |-> NoMonitor]
    /\ nmon = 0
    /\ monitor = 0
    /\ mount = PLACEHOLDER_DIR
    /\ req = IdleReq
    /\ sink = [m \in Monitors |-> NoSink]
    /\ burst = NoBurst
    /\ nev = 0
    /\ disk = Nothing /\ resp = Nothing
    /\ scans = [r \in Requests |-> IdleScan]
    /\ scan_lock = 0
    /\ arg = Nothing /\ out = Nothing

\* lines 54-65 and 99-100: the path is resolved, the thread is started
ImagesRequest(r, path) ==
    /\ scans[r].pc = "idle"
    /\ scans' = [scans EXCEPT ![r] = [IdleScan EXCEPT !.pc = "started", !.path = path]]
    /\ UNCHANGED <<server, disk, resp, scan_lock, arg, out>>

\* line 69: the thread enters `with scan_lock`
AcquireLock(r) ==
    /\ scans[r].pc = "started"
    /\ ~Locked(scan_lock)
    /\ scan_lock' = r
    /\ scans' = [scans EXCEPT ![r].pc = "scanning"]
    /\ UNCHANGED <<server, disk, resp, arg, out>>

\* lines 72-76: the scan returns and its result is put into the queue
ScanPut(r) ==
    /\ scans[r].pc = "scanning"
    /\ scans' = [scans EXCEPT
          ![r].pc = "put",
          ![r].put = Result(Returned(ScanForImages(fs, scans[r].path,
                                                   Last(scans[r].path), TRUE)))]
    /\ UNCHANGED <<server, disk, resp, scan_lock, arg, out>>

\* The except clause with a slip: the exception ends the thread and nothing is put.
ScanPutError_no_put(r) ==
    /\ scans[r].pc = "scanning"
    /\ scan_lock' = 0
    /\ scans' = [scans EXCEPT ![r].pc = "exited"]
    /\ UNCHANGED <<server, disk, resp, arg, out>>

\* lines 77-78: an exception inside the try is put into the queue
ScanPutError(r) ==
    /\ scans[r].pc = "scanning"
    /\ scans' = [scans EXCEPT ![r].pc = "put", ![r].put = Result(Raised)]
    /\ UNCHANGED <<server, disk, resp, scan_lock, arg, out>>

\* the thread leaves the `with` block of line 69 and ends
ReleaseLock(r) ==
    /\ scans[r].pc = "put"
    /\ scan_lock' = 0
    /\ scans' = [scans EXCEPT ![r].pc = "exited"]
    /\ UNCHANGED <<server, disk, resp, arg, out>>

\* lines 102-103 and on_scan_complete, lines 80-95: the handler takes the
\* result from the queue and responds
ImagesRespond(r) ==
    /\ scans[r].put.done /\ scans[r].status = 0
    /\ scans' = [scans EXCEPT ![r].status = IF scans[r].put.val.raised THEN 500 ELSE 200]
    /\ UNCHANGED <<server, disk, resp, scan_lock, arg, out>>

\* The request is over: its thread has ended and its response is sent.
ImagesDone(r) ==
    /\ scans[r].pc = "exited" /\ scans[r].status # 0
    /\ scans' = [scans EXCEPT ![r] = IdleScan]
    /\ UNCHANGED <<server, disk, resp, scan_lock, arg, out>>

NextImages ==
    \/ \E r \in Requests, path \in RequestPaths : ImagesRequest(r, path)
    \/ \E r \in Requests : AcquireLock(r)
    \/ \E r \in Requests : ScanPut(r)
    \/ \E r \in Requests : ScanPutError(r)
    \/ \E r \in Requests : ReleaseLock(r)
    \/ \E r \in Requests : ImagesRespond(r)
    \/ \E r \in Requests : ImagesDone(r)

SpecImages == InitImages /\ [][NextImages]_vars

\* ------------------------------------------- on-demand scans, scheduled
\* The handler is a coroutine that never awaits: it blocks the event loop in
\* result_queue.get() (line 102), so the loop accepts the next request only
\* after the response of the current one; the thread of the previous request
\* may still be leaving its `with` block.
HandlerBlocked(r) == scans[r].pc # "idle" /\ scans[r].status = 0

LoopRequest(r, path) ==
    /\ \A q \in Requests : ~HandlerBlocked(q)
    /\ ImagesRequest(r, path)

\* the worker thread of request r: it runs until it has ended
ScanThread(r) ==
    AcquireLock(r) \/ ScanPut(r) \/ ScanPutError(r) \/ ReleaseLock(r)

NextHandoff ==
    \/ \E r \in Requests, path \in RequestPaths : LoopRequest(r, path)
    \/ \E r \in Requests : ScanThread(r)
    \/ \E r \in Requests : ImagesRespond(r)
    \/ \E r \in Requests : ImagesDone(r)

\* Started threads are scheduled, and the handler wakes up when its queue
\* holds a value.
SpecHandoff ==
    /\ InitImages
    /\ [][NextHandoff]_vars
    /\ \A r \in Requests : WF_vars(ScanThread(r)) /\ WF_vars(ImagesRespond(r))

\* ------------------------------------------- a watch and on-demand scans
\* A watch that start_gallery_monitor has started on one of the directories,
\* its observer running, and a client that fetches the listing of the watched
\* root with /Gallery/images while the watcher publishes its diffs.
InitListing ==
    /\ fs \in [Files -> FileStates]
    /\ \E root \in Dirs :
          LET seed == ScanForImages(fs, root, "output", TRUE)
          IN /\ handler = [m \in Monitors |->
                             IF m = 1 THEN NewHandler(root, seed) ELSE NoHandler]
             /\ sink = [m \in Monitors |->
                          IF m = 1 THEN [NoSink EXCEPT !.applied = seed] ELSE NoSink]
             /\ mon = [m \in Monitors |->
                         IF m = 1 THEN [base_path |-> root, thread |-> "alive",
                                        observer |-> "running"]
                         ELSE NoMonitor]
             /\ mount = root
    /\ nmon = 1
    /\ monitor = 1
    /\ req = IdleReq
    /\ burst = NoBurst
    /\ nev = 0
    /\ disk = Nothing /\ resp = Nothing
    /\ scans = [r \in Requests |-> IdleScan]
    /\ scan_lock = 0
    /\ arg = Nothing /\ out = Nothing

NextListing ==
    \/ \E e \in Events : RawEvent(e) /\ nev < MaxEvents /\ nev' = nev + 1 /\ UNCHANGED <<burst, aux>>
    \/ WatchTick
    \/ \E s \in Slots : Rescan(s)
    \/ \E r \in Requests : LoopRequest(r, mon[1].base_path)
    \/ \E r \in Requests : AcquireLock(r)
    \/ \E r \in Requests : ScanPut(r)
    \/ \E r \in Requests : ReleaseLock(r)
    \/ \E r \in Requests : ImagesRespond(r)
    \/ \E r \in Requests : ImagesDone(r)

SpecListing == InitListing /\ [][NextListing]_vars

\* ------------------------------------------------------- delete and move
\* delete_image and move_image, server.py:164-245.  Here paths are absolute:
\* <<"comfy", "output", "a.png">> is /comfy/output/a.png, comfy_path is /comfy
\* and the static route serves comfy_path joined with `mount`.
ComfyPath == <<"comfy">>
StaticDir == ComfyPath \o mount
\* /comfy/output/link is a symlink to the directory /secret.
LinkPath == <<"comfy", "output", "link">>
LinkTarget == <<"secret">>
\* The tree at the start: media files inside the mount, in a sibling directory
\* whose name begins with the mount's name, elsewhere in the install root,
\* outside it, and in a sibling of the install root.
DiskDirs ==
    {<<"comfy">>, <<"comfy", "output">>, <<"comfy", "output", "sub">>,
     <<"comfy", "output2">>, <<"comfy", "other">>, <<"secret">>, <<"comfy2">>}
DiskFiles ==
    {<<"comfy", "output", "a.png">>, <<"comfy", "output", "sub", "a.png">>,
     <<"comfy", "output2", "b.png">>, <<"comfy", "other", "c.png">>,
     <<"secret", "s.png">>, <<"comfy2", "d.png">>}

\* A path as a request gives it: absolute or relative, its segments
RelPathOf(segs) == [abs |-> FALSE, segs |-> segs]
AbsPathOf(segs) == [abs |-> TRUE, segs |-> segs]
\* The paths of the requests: inside the mount, up and into a sibling, through
\* the symlink, absolute, a directory, a file that is not there, a new folder.
RequestFiles ==
    {RelPathOf(<<"a.png">>), RelPathOf(<<"sub", "a.png">>),
     RelPathOf(<<"..", "output2", "b.png">>), RelPathOf(<<"..", "other", "c.png">>),
     RelPathOf(<<"link", "s.png">>), AbsPathOf(<<"secret", "s.png">>),
     RelPathOf(<<"..", "..", "comfy2", "d.png">>), RelPathOf(<<"output", "a.png">>)}
RequestTargets ==
    RequestFiles \cup {RelPathOf(<<"sub">>), RelPathOf(<<"new", "a.png">>),
                       RelPathOf(<<"..", "output2", "new", "b.png">>)}

\* os.path.normpath: ".." takes away the segment before it (nothing at the root)
RECURSIVE normpath(_)
normpath(segs) ==
    IF segs = <<>> THEN <<>>
    ELSE LET front == normpath(Front(segs))
         IN IF Last(segs) = ".."
            THEN (IF front = <<>> THEN <<>> ELSE Front(front))
            ELSE Append(front, Last(segs))
\* os.path.join(base, p): an absolute p replaces the base
join(base, p) == IF p.abs THEN p.segs ELSE base \o p.segs
\* os.path.realpath of a normalized path: the symlink is resolved
realpath(path) ==
    IF IsPrefix(LinkPath, path)
    THEN LinkTarget \o SubSeq(path, Len(LinkPath) + 1, Len(path))
    ELSE path
\* a is a prefix of b as a string, for the directory names of the tree
NamePrefix(a, b) ==
    a = b \/ <<a, b>> \in {<<"output", "output2">>, <<"comfy", "comfy2">>}
\* str.startswith on the strings of two paths: the last segment of the prefix
\* may end inside a segment of the path
startswith(path, prefix) ==
    \/ prefix = <<>>
    \/ /\ Len(prefix) <= Len(path)
       /\ SubSeq(path, 1, Len(prefix) - 1) = Front(prefix)
       /\ NamePrefix(Last(prefix), path[Len(prefix)])
\* os.path.isdir, os.path.exists (both follow symlinks)
isdir(d, path) == realpath(path) \in d.dirs \cup {<<>>}
exists(d, path) == isdir(d, path) \/ realpath(path) \in d.files
\* os.makedirs(path, exist_ok=True)
makedirs(d, path) ==
    [d EXCEPT !.dirs = @ \cup {SubSeq(realpath(path), 1, n) : n \in 1 .. Len(realpath(path))}]

\* A response, and the disk after the request
Response(d, status) == [disk |-> d, status |-> status]

\* The image_path of a delete request: missing, not under /static_gallery/,
\* or /static_gallery/ followed by a path
DeleteUrls ==
    {[given |-> FALSE, static |-> FALSE, path |-> RelPathOf(<<>>)],
     [given |-> TRUE, static |-> FALSE, path |-> RelPathOf(<<>>)]}
      \cup {[given |-> TRUE, static |-> TRUE, path |-> q]
            : q \in RequestFiles \cup {RelPathOf(<<"sub">>), RelPathOf(<<"gone.png">>)}}

\* full_image_path of delete_image, server.py:183
FullImagePath(static_dir, image_url) == normpath(join(static_dir, image_url.path))

\* delete_image, server.py:164-192
delete_image(d, static_dir, image_url) ==
    LET full_image_path == FullImagePath(static_dir, image_url)
    IN IF ~image_url.given THEN Response(d, 400)
       ELSE IF ~image_url.static THEN Response(d, 400)
       ELSE IF ~exists(d, full_image_path) THEN Response(d, 404)
       ELSE IF ~startswith(full_image_path, realpath(static_dir)) THEN Response(d, 403)
       ELSE IF isdir(d, full_image_path) THEN Response(d, 500)
       ELSE Response([d EXCEPT !.files = @ \ {realpath(full_image_path)}], 200)

\* make_path of move_image, server.py:213-221
make_path(static_dir, q) ==
    IF q.abs THEN normpath(q.segs)
    ELSE IF Len(q.segs) > 1 /\ q.segs[1] = Last(static_dir)
         THEN normpath(static_dir \o SubSeq(q.segs, 2, Len(q.segs)))
    ELSE normpath(static_dir \o q.segs)

\* full_target_path after lines 234-235: a target that is a directory takes the
\* source's file name
FinalTarget(d, static_dir, source_path, target_path) ==
    LET full_target_path == make_path(static_dir, target_path)
    IN IF isdir(d, full_target_path)
       THEN Append(full_target_path, Last(make_path(static_dir, source_path)))
       ELSE full_target_path

\* move_image, server.py:194-245, for a source that is no directory
move_image(d, static_dir, source_path, target_path) ==
    LET full_source_path == make_path(static_dir, source_path)
        full_target_path == make_path(static_dir, target_path)
        final == FinalTarget(d, static_dir, source_path, target_path)
        made == IF exists(d, Front(final)) THEN d ELSE makedirs(d, Front(final))
    IN IF ~exists(d, full_source_path) THEN Response(d, 404)
       ELSE IF \/ ~startswith(realpath(full_source_path), realpath(static_dir))
               \/ ~startswith(realpath(full_target_path), realpath(static_dir))
               \/ ~startswith(realpath(full_source_path), realpath(ComfyPath))
               \/ ~startswith(realpath(full_target_path), realpath(ComfyPath))
            THEN Response(d, 403)
       ELSE Response([made EXCEPT !.files = (@ \ {realpath(full_source_path)})
                                              \cup {realpath(final)}], 200)

InitFiles ==
    /\ fs = [f \in Files |-> 0]
    /\ handler = [m \in Monitors |-> NoHandler]
    /\ mon = [m \in Monitors |-> NoMonitor]
    /\ nmon = 0
    /\ monitor = 0
    /\ mount \in Dirs
    /\ req = IdleReq
    /\ sink = [m \in Monitors |-> NoSink]
    /\ burst = NoBurst
    /\ nev = 0
    /\ disk = [files |-> DiskFiles, dirs |-> DiskDirs]
    /\ resp = [op |-> "none", status |-> 0]
    /\ scans = Nothing /\ scan_lock = 0
    /\ arg = Nothing /\ out = Nothing

\* POST /Gallery/delete
DeleteImage(image_url) ==
    /\ LET r == delete_image(disk, StaticDir, image_url)
       IN disk' = r.disk /\ resp' = [op |-> "delete", status |-> r.status]
    /\ UNCHANGED <<server, scans, scan_lock, arg, out>>

\* POST /Gallery/move
MoveImage(source_path, target_path) ==
    /\ ~isdir(disk, make_path(StaticDir, source_path))
    /\ LET r == move_image(disk, StaticDir, source_path, target_path)
       IN disk' = r.disk /\ resp' = [op |-> "move", status |-> r.status]
    /\ UNCHANGED <<server, scans, scan_lock, arg, out>>

NextFiles ==
    \/ \E image_url \in DeleteUrls : DeleteImage(image_url)
    \/ \E source_path \in RequestFiles, target_path \in RequestTargets :
          MoveImage(source_path, target_path)

SpecFiles == InitFiles /\ [][NextFiles]_vars

\* ------------------------------------------------------------------ claims
Waiting(hs) == {s \in Slots : hs.timers[s].pc = "waiting"}
Running(hs) == {s \in Slots : Executing(hs.timers[s])}
\* The handler's timer reference names a timer armed just now.
JustArmed(hs) ==
    /\ hs.debounce_timer # 0
    /\ hs.timers[hs.debounce_timer].pc = "waiting"
    /\ hs.timers[hs.debounce_timer].rem = DebounceInterval
\* stop_monitoring has returned for monitor m
Stopped(m) == mon[m].observer = "exited" /\ mon[m].thread = "none"

\* C1: for a watched root at most one rescan executes its filesystem walk at
\* any time (the in-flight counter never exceeds 1).
C1_AtMostOneWalk ==
    \A m \in Monitors :
        Cardinality({s \in Slots : TimerAt(m, s).pc = "scanning"}) <= 1

\* C2: the qualifying raw events of one burst (each less than the debounce
\* interval after the previous one) produce exactly one rescan: never more
\* than one, and one once the burst is over and no timer is pending.
C2_BurstGivesOneRescan ==
    /\ burst.fires <= 1
    /\ (/\ Truthy(handler[1].processed_events)
        /\ burst.gap >= DebounceInterval
        /\ Waiting(handler[1]) = {})
       => burst.fires = 1

C4_StreamGivesCache ==
    \A m \in Monitors :
        Running(handler[m]) = {} => sink[m].applied = handler[m].last_known_folders

\* C5: every message published carries at least one folder with a change
\* record, and a rescan with a non-empty diff publishes its message.
C5_NoEmptyMessage ==
    [][\A m \in Monitors, s \in Slots :
          DiffAndPublish(m, s)
          => (ShouldSend(ChangesOf(m, s)) <=> Truthy(ChangesOf(m, s).folders))]_vars

\* C6: when a start request replaces an active watch, the old watch is fully
\* stopped before the new watch's initial scan begins: its observer has
\* exited, no timer of it is pending and no rescan of it is in flight.
C6_OldWatchStoppedFirst ==
    (req.pc = "init_scan" /\ req.replaced # 0)
    => /\ mon[req.replaced].observer = "exited"
       /\ \A s \in Slots : TimerAt(req.replaced, s).pc = "free"

\* C7: at most one observer is running and able to deliver events.
C7_AtMostOneObserver ==
    Cardinality({m \in Monitors : mon[m].observer = "running"}) <= 1

\* A second watch runs after the first one was stopped.
C7_Witness ==
    mon[1].observer = "exited" /\ mon[2].observer = "running"

\* C8: once stop_monitoring has returned for a watch, that watch starts no
\* rescan and publishes nothing.
C8_SilentAfterStop ==
    [][\A m \in Monitors, s \in Slots :
          Stopped(m) => /\ ~TimerFire(m, s)
                        /\ ~(DiffAndPublish(m, s) /\ ShouldSend(ChangesOf(m, s)))]_vars

\* The create records of a message for files that the snapshot held unchanged
CreatesOfKnown(snapshot, changes) ==
    {<<k, f>> \in UNION {{<<k, f>> : f \in DOMAIN changes.folders[k]}
                          : k \in DOMAIN changes.folders} :
        /\ changes.folders[k][f].action = "create"
        /\ k \in DOMAIN snapshot
        /\ f \in DOMAIN snapshot[k]
        /\ snapshot[k][f] = EntryOf(changes.folders[k][f])}

\* C9: the first message a watch publishes reports no file as created that
\* was there, unchanged, when the watch started (before the first message the
\* subscriber holds the snapshot of the start).
C9_FirstDiffNoStaleCreate ==
    [][\A m \in Monitors, s \in Slots :
          (DiffAndPublish(m, s) /\ ~sink[m].sent /\ ShouldSend(ChangesOf(m, s)))
          => CreatesOfKnown(sink[m].applied, ChangesOf(m, s)) = {}]_vars

\* A watch that started with the file on disk, and has seen it modified and
\* never created, has published its first message.
C9_Witness ==
    \E m \in Monitors :
        /\ sink[m].sent
        /\ <<"modified", MediaFile>> \in DOMAIN handler[m].processed_events
        /\ <<"created", MediaFile>> \notin DOMAIN handler[m].processed_events
        /\ Truthy(sink[m].applied)

\* C10: a rescan that raises leaves the cached snapshot and the published
\* stream as they were, and the watcher goes on: a later qualifying raw event
\* that is no duplicate arms the debounce timer, and after any qualifying raw
\* event a timer is pending.
C10_FailedRescanHarmless ==
    [][/\ \A s \in Slots :
            RescanRaise(1, s)
            => /\ handler'[1].last_known_folders = handler[1].last_known_folders
               /\ sink' = sink
       /\ \A e \in Events :
            (RawEvent(e) /\ Delivers(1, e) /\ Qualifying(e))
            => /\ Waiting(handler'[1]) # {}
               /\ ~IsDuplicate(handler[1], e) => JustArmed(handler'[1])]_vars

\* A rescan has raised: the handler's timer reference names a thread that has
\* ended, and a timer armed after it is not there yet.
C10_Witness ==
    /\ handler[1].debounce_timer # 0
    /\ ~IsAlive(handler[1], handler[1].debounce_timer)
    /\ Running(handler[1]) = {}

\* C11: a stop request always ends with no monitor alive, no observer
\* running and the static mount at the placeholder directory, and with no
\* monitor alive it leaves the monitors as they are; so one stop request or
\* several in a row give the same state.
C11_StopIdempotent ==
    [][StopRequest
       => /\ mount' = PLACEHOLDER_DIR
          /\ (monitor' = 0 \/ mon'[monitor'].thread # "alive")
          /\ \A m \in Monitors : mon'[m].observer # "running"
          /\ ~MonitorAlive => UNCHANGED <<mon, monitor, handler, nmon>>]_vars

\* C19: at most one debounce timer is pending for a watched root at any time.
C19_AtMostOnePending ==
    \A m \in Monitors : Cardinality(Waiting(handler[m])) <= 1

\* C20: last_known_folders changes only in the step that ends a rescan, and in
\* that step it becomes exactly the snapshot that rescan's scan returned,
\* whether or not the diff was empty; events, timers, scans in progress and
\* publishing leave it alone.
C20_CacheWrittenOnlyAtEnd ==
    [][\A m \in Monitors :
          /\ \A s \in Slots :
                WriteCache(m, s) => handler'[m].last_known_folders = TimerAt(m, s).new
          /\ handler'[m].last_known_folders # handler[m].last_known_folders
             => \E s \in Slots : WriteCache(m, s)]_vars

\* A rescan has published and replaced the cache, which now holds what is on
\* disk; nothing is pending or running.
C20_Witness ==
    /\ sink[1].sent
    /\ handler[1].debounce_timer = 0
    /\ Running(handler[1]) = {} /\ Waiting(handler[1]) = {}
    /\ handler[1].last_known_folders = ScanForImages(fs, OutputDir, "output", TRUE)

\* The file is in the snapshot
InSnap(snap, k, f) == k \in DOMAIN snap /\ f \in DOMAIN snap[k]
\* The record the diff holds for the file, with its action and its fields
HasRecord(changes, k, f, action, data) ==
    /\ InSnap(changes.folders, k, f)
    /\ changes.folders[k][f] = ChangeRecord(action, data)

\* C15: detect_folder_changes gives every (folder, file) of either snapshot
\* exactly one classification: create with the new record's fields iff the
\* file is only in the new snapshot, remove without payload iff it is only in
\* the old one, update with the new record's fields iff it is in both with
\* unequal records, and no record iff it is in both with equal records; the
\* diff has no other key and no folder without a record.
C15_DiffComplete ==
    out.done =>
        /\ DOMAIN out.val = {"folders"}
        /\ DOMAIN out.val.folders \subseteq FolderKeys
        /\ \A k \in DOMAIN out.val.folders :
              Truthy(out.val.folders[k]) /\ DOMAIN out.val.folders[k] \subseteq SnapNames
        /\ \A k \in FolderKeys, f \in SnapNames :
              LET old == arg.old_folders
                  new == arg.new_folders
              IN CASE ~InSnap(old, k, f) /\ InSnap(new, k, f) ->
                          HasRecord(out.val, k, f, "create", new[k][f])
                   [] InSnap(old, k, f) /\ ~InSnap(new, k, f) ->
                          InSnap(out.val.folders, k, f) /\ out.val.folders[k][f] = [action |-> "remove"]
                   [] InSnap(old, k, f) /\ InSnap(new, k, f) /\ old[k][f] # new[k][f] ->
                          HasRecord(out.val, k, f, "update", new[k][f])
                   [] OTHER -> ~InSnap(out.val.folders, k, f)

\* A diff with a create, a remove and an update record, and a file left out
\* because its records are equal.
C15_Witness ==
    /\ out.done
    /\ \E k \in DOMAIN out.val.folders, f \in SnapNames :
          InSnap(out.val.folders, k, f) /\ out.val.folders[k][f].action = "create"
    /\ \E k \in DOMAIN out.val.folders, f \in SnapNames :
          InSnap(out.val.folders, k, f) /\ out.val.folders[k][f].action = "remove"
    /\ \E k \in DOMAIN out.val.folders, f \in SnapNames :
          InSnap(out.val.folders, k, f) /\ out.val.folders[k][f].action = "update"
    /\ \E k \in FolderKeys, f \in SnapNames :
          /\ InSnap(arg.old_folders, k, f) /\ InSnap(arg.new_folders, k, f)
          /\ ~InSnap(out.val.folders, k, f)

\* C16: the diff of a snapshot with itself has no folder key and no record.
C16_DiffOfSelfEmpty ==
    (out.done /\ arg.old_folders = arg.new_folders) => out.val.folders = EmptyDict

\* A snapshot with files in both folders has been compared with itself.
C16_Witness ==
    /\ out.done
    /\ arg.old_folders = arg.new_folders
    /\ DOMAIN arg.old_folders = FolderKeys

\* The walk from the base reaches the directory and lists it: the directory
\* and the directories above it are readable, and subfolders are included if
\* it is one.
Walked(dir_path) ==
    /\ \A d \in Dirs : IsPrefix(d, dir_path) => d \notin arg.faults.unreadable
    /\ dir_path = OutputDir \/ arg.include_subfolders

\* C17: _scan_for_images never raises, whichever directories are unreadable
\* and whichever files fail in stat or in the metadata extractor; the snapshot
\* holds every media file of every directory the walk lists whose stat
\* succeeds, and a file whose extractor fails has empty metadata.
C17_ScanFailuresContained ==
    out.done =>
        /\ ~out.val.raised
        /\ \A f \in ScanFiles :
              (/\ arg.fsv[f] # 0
               /\ EndsWith(Lower(Last(f)), ScanExts)
               /\ Walked(Front(f))
               /\ f \notin arg.faults.stat_raises)
              => LET folder_key == <<"output">> \o RelPath(Front(f), OutputDir)
                 IN /\ InSnap(out.val.val, folder_key, Last(f))
                    /\ f \in arg.faults.meta_raises
                       => out.val.val[folder_key][Last(f)].metadata = EmptyDict

\* output/sub is unreadable, b.webm fails in stat and A.PNG in the metadata
\* extractor; the scan has returned with A.PNG in the snapshot.
C17_Witness ==
    /\ out.done
    /\ arg.faults.unreadable = {SubDir}
    /\ <<"output", "b.webm">> \in arg.faults.stat_raises
    /\ <<"output", "A.PNG">> \in arg.faults.meta_raises
    /\ arg.fsv[<<"output", "sub", "a.png">>] # 0
    /\ InSnap(out.val.val, <<"output">>, "A.PNG")
    /\ ~InSnap(out.val.val, <<"output">>, "b.webm")

\* C18: a create, delete, modify or rename event for a non-directory,
\* non-temporary file whose name has an extension the scanner lists (in any
\* letter case) takes the idle watcher to a pending debounce timer.
C18_WatcherSeesScannerFiles ==
    (/\ out.done
     /\ ~arg.is_directory
     /\ arg.event_type \in DebouncedTypes
     /\ ~EndsWith(Last(arg.src_path), TempSuffixes)
     /\ EndsWith(Lower(Last(arg.src_path)), ScanExts))
    => JustArmed(handler[1])

\* C14: at most one /Gallery/images request is executing its scan at any
\* time; a thread is scanning or putting its result exactly while it holds
\* the lock, and a thread that has ended, on the success or on the error
\* path, has released it.
C14_ScansExclusive ==
    /\ Cardinality({r \in Requests : scans[r].pc = "scanning"}) <= 1
    /\ \A r \in Requests : scans[r].pc \in {"scanning", "put"} <=> scan_lock = r

\* A request whose scan raised has ended with its 500 response sent, and
\* another request holds the lock and scans.
C14_Witness ==
    \E r1, r2 \in Requests :
        /\ scans[r1].pc = "exited" /\ scans[r1].status = 500
        /\ scans[r2].pc = "scanning"

\* C21: every /Gallery/images request ends with a response.  The worker puts
\* one value into the request's queue, on the path where the scan returns and
\* on the path where it raises: a put is always the first put of the request,
\* and a thread that has left the try block has put.  So the handler blocked
\* on the queue wakes up and responds: 200 when a snapshot was put, 500 when
\* an error was put.
C21_HandoffNeverHangs ==
    /\ [][\A r \in Requests :
            scans'[r].put # scans[r].put /\ scans'[r].put.done => ~scans[r].put.done]_vars
    /\ [](\A r \in Requests :
            /\ scans[r].pc \in {"put", "exited"} => scans[r].put.done
            /\ scans[r].status # 0
               => /\ scans[r].put.done
                  /\ scans[r].status = IF scans[r].put.val.raised THEN 500 ELSE 200)
    /\ \A r \in Requests : HandlerBlocked(r) ~> scans[r].status # 0

\* A request whose scan raised has been answered with 500 from the error
\* value in its queue, while its thread still holds the lock.
C21_Witness ==
    \E r \in Requests :
        /\ scans[r].pc = "put" /\ scans[r].put = Result(Raised)
        /\ scans[r].status = 500

\* C22: the dedup table holds only the (event type, real path) pairs seen
\* within the last debounce interval: every entry of processed_events is
\* younger than the interval.
C22_DedupTableBounded ==
    \A m \in Monitors :
        \A event_key \in DOMAIN handler[m].processed_events :
            handler[m].processed_events[event_key] < DebounceInterval

\* C23: applying the diff of two snapshots to the old one gives the new one:
\* the payload of a create is added, the payload of an update replaces the
\* entry, a remove deletes it, and a folder left without files is dropped.
C23_DiffRoundTrip ==
    out.done => ApplyDiff(arg.old_folders, out.val) = arg.new_folders

\* The diff of two different snapshots has been computed: a folder of the old
\* one is gone in the new one, and another folder has an updated and a
\* created file.
C23_Witness ==
    /\ out.done
    /\ \E k \in DOMAIN arg.old_folders : k \notin DOMAIN arg.new_folders
    /\ \E k \in DOMAIN out.val.folders :
          /\ k \in DOMAIN arg.old_folders /\ k \in DOMAIN arg.new_folders
          /\ \E f, g \in DOMAIN out.val.folders[k] :
                /\ out.val.folders[k][f].action = "update"
                /\ out.val.folders[k][g].action = "create"

\* The watcher is idle, no timer is pending, and the cached snapshot is what
\* a scan of the file system returns now.
Consistent ==
    /\ Running(handler[1]) = {} /\ Waiting(handler[1]) = {}
    /\ handler[1].last_known_folders = ScanForImages(fs, handler[1].base_path, "output", TRUE)

\* C24: if from some point on nothing happens to the media files under the
\* watched root, then from some point on the watcher is idle with no timer
\* pending and its cached snapshot equals the scan of the file system.
C24_EventuallyConsistent ==
    <>[][\A e \in Events : ~WatchEvent(e)]_vars => <>[]Consistent

\* The start request for this path is answered 400 at server.py:125-126: the
\* path is no directory, and stopping the previous monitor did not raise.
Rejected(path) ==
    /\ path \notin Dirs
    /\ ~(MonitorAlive /\ stop_monitoring(mon[monitor]).raised)

\* C25: a start request rejected with 400 leaves the active watch running on
\* its root and the static mount where it was.
C25_RejectedStartChangesNothing ==
    [][\A path \in RequestPaths :
          StartRequest(path) /\ Rejected(path) => UNCHANGED <<mon, monitor, mount>>]_vars

\* C26: while no start or stop request is being processed, the static mount
\* is the root of the running monitor, or the placeholder directory when no
\* monitor is running.
C26_MountFollowsMonitor ==
    req.pc = "idle"
    => mount = IF MonitorAlive THEN mon[monitor].base_path ELSE PLACEHOLDER_DIR

\* The listings of the watched root that /Gallery/images requests hold
Listings ==
    {scans[r].put.val.val : r \in {q \in Requests :
        /\ scans[q].path = mon[1].base_path
        /\ scans[q].put.done /\ ~scans[q].put.val.raised}}

\* C27: a diff the watcher publishes names a directory by the folder key the
\* on-demand listing of the watched root uses: a file that a create or update
\* record of the diff and a fetched listing both hold (the same name under the
\* same url) stands under the same folder key in both.
C27_DiffKeysMatchListing ==
    [][\A s \in Slots :
          DiffAndPublish(1, s) /\ ShouldSend(ChangesOf(1, s))
          => \A k \in DOMAIN ChangesOf(1, s).folders :
                \A f \in DOMAIN ChangesOf(1, s).folders[k] :
                   ChangesOf(1, s).folders[k][f].action # "remove"
                   => \A listing \in Listings : \A k2 \in DOMAIN listing :
                         (/\ f \in DOMAIN listing[k2]
                          /\ listing[k2][f].url = ChangesOf(1, s).folders[k][f].url)
                         => k2 = k]_vars

\* The path lies inside the directory (segment by segment)
Inside(path, dir) == IsPrefix(dir, path) /\ path # dir

\* C12: a delete request removes a file only if the file's real path lies
\* inside the mounted directory, and a request for an existing path that
\* resolves outside it is answered 403 and leaves the disk as it is.
C12_DeleteContained ==
    [][\A image_url \in DeleteUrls :
          DeleteImage(image_url)
          => /\ \A f \in disk.files \ disk'.files : Inside(f, realpath(StaticDir))
             /\ (/\ image_url.static
                 /\ exists(disk, FullImagePath(StaticDir, image_url))
                 /\ ~Inside(realpath(FullImagePath(StaticDir, image_url)),
                            realpath(StaticDir)))
                => resp'.status = 403 /\ disk' = disk]_vars

\* C13: a move request moves a file only if the real paths of the source and
\* of the final destination lie inside the mount root and inside the install
\* root; a request that breaks a boundary with either path is answered 403,
\* creates no directory and moves no file.
C13_MoveContained ==
    [][\A source_path \in RequestFiles, target_path \in RequestTargets :
          MoveImage(source_path, target_path)
          => LET src == realpath(make_path(StaticDir, source_path))
                 dst == realpath(FinalTarget(disk, StaticDir, source_path, target_path))
                 allowed == /\ Inside(src, realpath(StaticDir))
                            /\ Inside(dst, realpath(StaticDir))
                            /\ Inside(src, realpath(ComfyPath))
                            /\ Inside(dst, realpath(ComfyPath))
             IN /\ disk' # disk => allowed
                /\ (exists(disk, make_path(StaticDir, source_path)) /\ ~allowed)
                   => resp'.status = 403 /\ disk' = disk]_vars

====
